---- MODULE Spec2Model ----
(***************************************************************************)
(* Model of src/wrap/multi_dispatch.py: the multi_dispatch decorator, its  *)
(* registry, the TypeTree signature trie, the C3 linearizer copied from    *)
(* functools, and the weak dispatch cache.                                 *)
(***************************************************************************)
EXTENDS Integers, Sequences, FiniteSets, TLC

VARIABLES registry, nodes, dispatch_cache, cache_token, abc_token, keys, regs,
          last, lin

vars == <<registry, nodes, dispatch_cache, cache_token, abc_token, keys, regs,
          last, lin>>

(***************************************************************************)
(* Bounds of the exploration.                                              *)
(***************************************************************************)
\* successful register() calls explored per behaviour
MaxRegs == 2
\* caller-held key objects passed to dispatch() directly
MaxKeys == 1
\* advances of the global ABC cache token (abc.get_cache_token)
MaxTok == 1

(***************************************************************************)
(* The class universe of the client program.                               *)
(***************************************************************************)
\* inspect._empty, the annotation of an unannotated parameter (the wildcard)
IGNORE_TYPE == "_empty"

\* a signature element that is not a class (e.g. the GenericAlias list[int])
NotAClass == "list[int]"

Classes == {"object", "Animal", "Dog", "Cat", "Bird", "Swimmer", "Flyer", "Duck",
            "MutA", "MutB", IGNORE_TYPE}

\* cls.__bases__
Bases(c) ==
    CASE c = "object" -> <<>>
      [] c = "Dog"    -> <<"Animal">>
      [] OTHER        -> <<"object">>

\* classes created with metaclass ABCMeta: hasattr(c, '__abstractmethods__')
HasAbstractMethods(c) == c \in {"Swimmer", "Flyer", "MutA", "MutB"}

\* structural ("virtual") subclass pairs <<sub, abc>>: Swimmer.register(Duck),
\* Flyer.register(Duck), and MutA / MutB accept each other through
\* __subclasshook__
Virtual == {<<"Duck", "Swimmer">>, <<"Duck", "Flyer">>,
            <<"MutA", "MutB">>, <<"MutB", "MutA">>}

\* typ.__subclasses__(): the declared direct subclasses, in creation order
Subclasses(t) ==
    CASE t = "object" -> <<"Animal", "Cat", "Bird", "Swimmer", "Flyer", "Duck",
                           "MutA", "MutB", IGNORE_TYPE>>
      [] t = "Animal" -> <<"Dog">>
      [] OTHER        -> <<>>

Range(s) == {s[i] : i \in DOMAIN s}

\* the function f as an explicit table, computed once
Tabulate(f) == f @@ << >>

\* marker for the RuntimeError("Inconsistent hierarchy") of _c3_merge
Inconsistent == <<"RuntimeError: Inconsistent hierarchy">>

(***************************************************************************)
(* The linearizer (copied from functools in the source).                   *)
(***************************************************************************)
\* _c3_merge rejecting a head that appears anywhere in another sequence,
\* its head included
RECURSIVE C3MergeLoopHeadsToo(_, _)
C3MergeLoopHeadsToo(sequences, result) ==
    LET seqs == SelectSeq(sequences, LAMBDA s : Len(s) > 0)
        Rejected(i) == \E j \in DOMAIN seqs :
                           j # i /\ Head(seqs[i]) \in Range(seqs[j])
        good == {i \in DOMAIN seqs : ~Rejected(i)}
    IN  IF Len(seqs) = 0 THEN result
        ELSE IF good = {} THEN Inconsistent
        ELSE LET i0 == CHOOSE i \in good : \A j \in good : i <= j
                 candidate == Head(seqs[i0])
             IN  C3MergeLoopHeadsToo([i \in DOMAIN seqs |->
                                        IF Head(seqs[i]) = candidate
                                        THEN Tail(seqs[i]) ELSE seqs[i]],
                                     Append(result, candidate))

\* _c3_merge removing the chosen candidate from the sequence it was taken
\* from only
RECURSIVE C3MergeLoopOwnHead(_, _)
C3MergeLoopOwnHead(sequences, result) ==
    LET seqs == SelectSeq(sequences, LAMBDA s : Len(s) > 0)
        Rejected(i) == \E j \in DOMAIN seqs :
                           Head(seqs[i]) \in Range(Tail(seqs[j]))
        good == {i \in DOMAIN seqs : ~Rejected(i)}
    IN  IF Len(seqs) = 0 THEN result
        ELSE IF good = {} THEN Inconsistent
        ELSE LET i0 == CHOOSE i \in good : \A j \in good : i <= j
             IN  C3MergeLoopOwnHead([i \in DOMAIN seqs |->
                                       IF i = i0 THEN Tail(seqs[i]) ELSE seqs[i]],
                                    Append(result, Head(seqs[i0])))

\* _c3_merge: the loop of lines 23-41 on the sequences left and the result
\* built so far
RECURSIVE C3MergeLoop(_, _)
C3MergeLoop(sequences, result) ==
    LET seqs == SelectSeq(sequences, LAMBDA s : Len(s) > 0)
        Rejected(h) == \E j \in DOMAIN seqs : h \in Range(Tail(seqs[j]))
        good == {i \in DOMAIN seqs : ~Rejected(Head(seqs[i]))}
    IN  IF Len(seqs) = 0 THEN result
        ELSE IF good = {} THEN Inconsistent
        ELSE LET i0 == CHOOSE i \in good : \A j \in good : i <= j
                 candidate == Head(seqs[i0])
             IN  C3MergeLoop([i \in DOMAIN seqs |->
                                 IF Head(seqs[i]) = candidate
                                 THEN Tail(seqs[i]) ELSE seqs[i]],
                             Append(result, candidate))

C3Merge(sequences) == C3MergeLoop(sequences, <<>>)

\* C3 over the declared bases, as the interpreter computes cls.__mro__
RECURSIVE DeclaredMro(_)
DeclaredMro(c) ==
    C3Merge(<<<<c>>>> \o [i \in DOMAIN Bases(c) |-> DeclaredMro(Bases(c)[i])]
            \o <<Bases(c)>>)

MroTable == Tabulate([c \in Classes |-> DeclaredMro(c)])

\* cls.__mro__
NativeMro(c) == MroTable[c]

\* issubclass over the universe: declared ancestry, or ABC registration /
\* subclass hook
SubclassTable ==
    Tabulate([c \in Classes, t \in Classes |->
        \/ t \in Range(MroTable[c])
        \/ \E b \in Range(MroTable[c]) : <<b, t>> \in Virtual])

\* issubclass(c, t)
IsSubclass(c, t) == SubclassTable[c, t]

\* the elements of s that are not in the set drop, order kept
SeqMinus(s, drop) == SelectSeq(s, LAMBDA x : x \notin drop)

RECURSIVE C3Mro(_, _)
C3Mro(cls, abcs) ==
    LET bases == Bases(cls)
        abstractIdx == {i \in DOMAIN bases : HasAbstractMethods(bases[i])}
        boundary == IF abstractIdx = {} THEN 0
                    ELSE CHOOSE i \in abstractIdx : \A j \in abstractIdx : j <= i
        explicit_bases == SubSeq(bases, 1, boundary)
        other_bases == SubSeq(bases, boundary + 1, Len(bases))
        abstract_bases ==
            SelectSeq(abcs, LAMBDA base :
                /\ IsSubclass(cls, base)
                /\ ~\E i \in DOMAIN bases : IsSubclass(bases[i], base))
        rest == SeqMinus(abcs, Range(abstract_bases))
        explicit_c3_mros == [i \in DOMAIN explicit_bases |-> C3Mro(explicit_bases[i], rest)]
        abstract_c3_mros == [i \in DOMAIN abstract_bases |-> C3Mro(abstract_bases[i], rest)]
        other_c3_mros == [i \in DOMAIN other_bases |-> C3Mro(other_bases[i], rest)]
        sub == explicit_c3_mros \o abstract_c3_mros \o other_c3_mros
    IN  IF \E i \in DOMAIN sub : sub[i] = Inconsistent THEN Inconsistent
        ELSE C3Merge(<<<<cls>>>> \o sub
                     \o <<explicit_bases>> \o <<abstract_bases>> \o <<other_bases>>)

\* the order in which the set of registered classes is iterated.  It decides
\* the linearization only for a class with two unrelated structural bases in
\* the set (Duck with Swimmer and Flyer); no function of the client program
\* is registered for Flyer.
ClassOrder == <<"object", "Animal", "Dog", "Cat", "Bird", "Swimmer", "Flyer", "Duck",
                "MutA", "MutB", IGNORE_TYPE>>

\* list(S) for a set S of classes
SetToSeq(S) == SelectSeq(ClassOrder, LAMBDA x : x \in S)

\* found.sort(key=len, reverse=True): stable, longest first
RECURSIVE SortByLenDesc(_)
SortByLenDesc(found) ==
    IF Len(found) = 0 THEN <<>>
    ELSE LET sortedTail == SortByLenDesc(Tail(found))
             h == Head(found)
             before == SelectSeq(sortedTail, LAMBDA x : Len(x) > Len(h))
             after == SelectSeq(sortedTail, LAMBDA x : Len(x) <= Len(h))
         IN  before \o <<h>> \o after

\* appends to mro the elements of s that mro does not hold yet
RECURSIVE AppendNew(_, _)
AppendNew(mro, s) ==
    IF Len(s) = 0 THEN mro
    ELSE AppendNew(IF Head(s) \in Range(mro) THEN mro ELSE Append(mro, Head(s)),
                   Tail(s))

RECURSIVE AppendAllNew(_, _)
AppendAllNew(mro, found) ==
    IF Len(found) = 0 THEN mro
    ELSE AppendAllNew(AppendNew(mro, Head(found)), Tail(found))

\* the loop of _compose_mro over the filtered types (lines 113-127)
RECURSIVE StabilizeLoop(_, _, _, _)
StabilizeLoop(cls, types, i, mro) ==
    IF i > Len(types) THEN mro
    ELSE LET typ == types[i]
             bases == Range(NativeMro(cls))
             type_set == Range(types)
             subs == SelectSeq(Subclasses(typ), LAMBDA sub :
                         sub \notin bases /\ IsSubclass(cls, sub))
             found == [k \in DOMAIN subs |->
                         SelectSeq(NativeMro(subs[k]), LAMBDA s : s \in type_set)]
         IN  IF Len(found) = 0
             THEN StabilizeLoop(cls, types, i + 1, Append(mro, typ))
             ELSE StabilizeLoop(cls, types, i + 1,
                                AppendAllNew(mro, SortByLenDesc(found)))

ComposeMro(cls, types) ==
    LET bases == Range(NativeMro(cls))
        is_related(typ) == typ \notin bases /\ typ \in Classes /\ IsSubclass(cls, typ)
        related == SelectSeq(types, is_related)
        is_strict_base(typ) ==
            \E k \in DOMAIN related :
                typ # related[k] /\ typ \in Range(NativeMro(related[k]))
        kept == SelectSeq(related, LAMBDA n : ~is_strict_base(n))
    IN  C3Mro(cls, StabilizeLoop(cls, kept, 1, <<>>))

(***************************************************************************)
(* Node and TypeTree: the signature trie.  nodes[1] is the root; a node    *)
(* holds its value, its parent and its seq; the children list of a node is *)
(* the nodes naming it as parent, in creation (append) order.              *)
(***************************************************************************)
\* Python's None as the seq of a node that completes no signature
None == <<"None">>

\* the class object used as the registry key of the default implementation
\* (registry[object] = func) and returned by TypeTree.__getitem__ on a miss
ObjectKey == <<"<class 'object'>">>

\* Node.get returning None
NoNode == 0

Root == 1

Node(value, parent) == [value |-> value, parent |-> parent, seq |-> None]

Children(ns, p) == SelectSeq([i \in 1..Len(ns) |-> i], LAMBDA i : ns[i].parent = p)

\* an equality of nodes and classes that knows no wildcard
NodeEqExact(selfValue, other) == other = selfValue

\* Node.__eq__ of a node holding selfValue against a class
NodeEq(selfValue, other) ==
    \/ selfValue = IGNORE_TYPE
    \/ other = IGNORE_TYPE
    \/ other = selfValue

\* Node.__contains__: value in self.children
NodeContains(ns, p, value) ==
    \E i \in DOMAIN Children(ns, p) : NodeEq(ns[Children(ns, p)[i]].value, value)

\* Node.get for an iterable value (a linearized order): the first child, in
\* child order, that equals some element of value
NodeGetIter(ns, p, value) ==
    LET child == SelectSeq(Children(ns, p), LAMBDA c :
                     \E i \in DOMAIN value : NodeEq(ns[c].value, value[i]))
    IN  IF Len(child) > 0 THEN child[1] ELSE NoNode

\* Node.get for a single class: children[children.index(value)]
NodeGetValue(ns, p, value) ==
    LET child == SelectSeq(Children(ns, p), LAMBDA c : NodeEq(ns[c].value, value))
    IN  IF Len(child) > 0 THEN child[1] ELSE NoNode

RECURSIVE AddTypeLoop(_, _, _, _)
AddTypeLoop(ns, current, types, i) ==
    IF i > Len(types) THEN [ns EXCEPT ![current].seq = types]
    ELSE LET part == types[i]
         IN  IF NodeContains(ns, current, part)
             THEN AddTypeLoop(ns, NodeGetValue(ns, current, part), types, i + 1)
             ELSE LET grown == Append(ns, Node(part, current))
                  IN  AddTypeLoop(grown, Len(grown), types, i + 1)

\* a registration that leaves the trie as it is
AddTypeSkipped(ns, types) == ns

\* TypeTree.add_type
AddType(ns, types) == AddTypeLoop(ns, Root, types, 1)

RECURSIVE GetItemLoop(_, _, _, _)
GetItemLoop(ns, current, types, i) ==
    IF i > Len(types) THEN ns[current].seq
    ELSE LET nxt == NodeGetIter(ns, current, types[i])
         IN  IF nxt = NoNode THEN ObjectKey
             ELSE GetItemLoop(ns, nxt, types, i + 1)

\* TypeTree.__getitem__
GetItem(ns, types) == GetItemLoop(ns, Root, types, 1)

(***************************************************************************)
(* The functions of the client program and their annotations.              *)
(***************************************************************************)
\* the function the decorator wraps
DefaultFunc == "D"

\* an implementation of None (registry.get on a missing key)
NoImpl == "None"

Funcs == {"fDogAny", "fDogCat", "fDogCat2", "fAnimal", "fDog", "fSwimmer",
          "fAny", "fMutAB", "fAnyAny", "fBad"}

\* _get_args_type(func): the annotation of each parameter, inspect._empty for
\* a parameter without one
GetArgsType(f) ==
    CASE f = "fDogAny"  -> <<"Dog", IGNORE_TYPE>>
      [] f = "fDogCat"  -> <<"Dog", "Cat">>
      [] f = "fDogCat2" -> <<"Dog", "Cat">>
      [] f = "fAnimal"  -> <<"Animal">>
      [] f = "fDog"     -> <<"Dog">>
      [] f = "fSwimmer" -> <<"Swimmer">>
      [] f = "fAny"     -> <<IGNORE_TYPE>>
      [] f = "fMutAB"   -> <<"MutA", "MutB">>
      [] f = "fAnyAny"  -> <<IGNORE_TYPE, IGNORE_TYPE>>
      [] f = "fBad"     -> <<"Dog", NotAClass>>

\* the classes of the objects the client passes as positional arguments
ArgClasses == {"Dog", "Cat", "Bird", "Duck", "MutA", "MutB"}

\* the tuples of runtime classes of the calls the client makes: one or two
\* positional arguments
CallPool == {<<a>> : a \in ArgClasses} \cup {<<a, b>> : a \in ArgClasses, b \in ArgClasses}

(***************************************************************************)
(* _find_impl and dispatch.                                                *)
(***************************************************************************)
\* registry.get(match)
RegistryGet(reg, match) == IF match \in DOMAIN reg THEN reg[match] ELSE NoImpl

\* the set of all classes of the registered signatures (lines 215-216)
RegisteredTypes(reg) ==
    UNION {Range(ts) : ts \in (DOMAIN reg) \ {ObjectKey}}

\* the classes that can appear in a registered signature
RegistrableClasses == (UNION {Range(GetArgsType(f)) : f \in Funcs}) \cap Classes

\* _compose_mro(c, typs) tabulated over the argument classes and the sets
\* typs of registered classes
ComposeTable ==
    Tabulate([c \in ArgClasses, typs \in SUBSET RegistrableClasses |->
        ComposeMro(c, SetToSeq(typs))])

\* mro = [_compose_mro(c, typs) for c in cls] (line 217)
ComposedMros(cls, reg) ==
    [i \in DOMAIN cls |-> ComposeTable[cls[i], RegisteredTypes(reg)]]

\* _compose_mro raised RuntimeError for some argument class
MroRaised(mro) == \E i \in DOMAIN mro : mro[i] = Inconsistent

\* match = types_cache[mro]; return registry.get(match) (lines 218-219)
FindImplFrom(reg, ns, mro, raised) ==
    IF raised
    THEN [raised |-> TRUE, mro |-> mro, match |-> None, impl |-> NoImpl]
    ELSE [raised |-> FALSE, mro |-> mro, match |-> GetItem(ns, mro),
          impl |-> RegistryGet(reg, GetItem(ns, mro))]

\* _find_impl: the linearized orders, the matched seq and the implementation;
\* raised when _compose_mro raised RuntimeError
FindImpl(cls, reg, ns) ==
    FindImplFrom(reg, ns, ComposedMros(cls, reg), MroRaised(ComposedMros(cls, reg)))

\* cache_token = None: no registered class has made the engine track the
\* ABC cache token yet
NoToken == -1

\* the empty dispatch_cache
EmptyCache == [k \in {} |-> NoImpl]

\* the identity of the generator the wrapper builds for one call; it is
\* created by the call and unreachable after it
FreshKey == 0

\* the key object as a registry key: a generator or any other weakly
\* referenceable iterable hashes by identity and equals no registered tuple
KeyRepr(k) == <<"<iterable object>">>

\* the tuples the caller-held key objects iterate over
HeldPool == {<<"Dog", "Cat">>, <<"Duck">>}

\* the token check of dispatch (lines 254-258): the observed token is set
\* and differs from abc.get_cache_token()
Stale == cache_token # NoToken /\ cache_token # abc_token

\* the cache after the token check
CheckedCache == IF Stale THEN EmptyCache ELSE dispatch_cache

\* cache_token after the token check
CheckedToken == IF Stale THEN abc_token ELSE cache_token

\* dict1 with key k set to value v
Store(cache, k, v) ==
    [x \in DOMAIN cache \cup {k} |-> IF x = k THEN v ELSE cache[x]]

\* lines 259-267 of dispatch on the key object k, given the cache after the
\* token check and the outcome of _find_impl on the classes k iterates over
DispatchFrom(k, cache, found) ==
    IF k \in DOMAIN cache
    THEN [impl |-> cache[k], raised |-> FALSE, hit |-> TRUE, cache |-> cache]
    ELSE IF KeyRepr(k) \in DOMAIN registry
    THEN [impl |-> registry[KeyRepr(k)], raised |-> FALSE, hit |-> FALSE,
          cache |-> Store(cache, k, registry[KeyRepr(k)])]
    ELSE IF found.raised
    THEN [impl |-> NoImpl, raised |-> TRUE, hit |-> FALSE, cache |-> cache]
    ELSE [impl |-> found.impl, raised |-> FALSE, hit |-> FALSE,
          cache |-> Store(cache, k, found.impl)]

\* dispatch(cls) on the key object k iterating over cls
Dispatch(k, cls) == DispatchFrom(k, CheckedCache, FindImpl(cls, registry, nodes))

\* _is_valid_dispatch_type
IsValidDispatchType(c) == c \in Classes

\* the record of the last operation: its inputs, what it returned (result)
\* or raised (error), and whether dispatch answered from the cache (hit)
Event(op, f, force, cls, key, hit, result, error) ==
    [op |-> op, f |-> f, force |-> force, cls |-> cls, key |-> key,
     hit |-> hit, result |-> result, error |-> error]

DuplicateRegistration == "TypeError: already registered"
InvalidSignatureElement == "TypeError: not a class"
InconsistentHierarchy == "RuntimeError: Inconsistent hierarchy"
NotCallable == "TypeError: 'NoneType' object is not callable"
NoError == ""

\* no linearization has been computed
NoLin == [cls |-> "object", types |-> << >>, mro |-> << >>]

\* the state multi_dispatch(func) builds
Constructed ==
    /\ registry = [k \in {ObjectKey} |-> DefaultFunc]
    /\ nodes = <<Node("None", 0)>>
    /\ dispatch_cache = EmptyCache
    /\ cache_token = NoToken
    /\ abc_token = 0
    /\ regs = 0
    /\ last = Event("init", DefaultFunc, FALSE, <<>>, FreshKey, FALSE, NoImpl, NoError)
    /\ lin = NoLin

\* the client holds no key object of its own
Init == Constructed /\ keys = << >>

\* the client holds MaxKeys key objects, which it passes to dispatch itself
InitCache == Constructed /\ keys \in [1..MaxKeys -> HeldPool]

\* register clearing the cache before its checks
RegisterRejectedAfterClear(f, force, error) ==
    /\ last' = Event("register", f, force, GetArgsType(f), FreshKey, FALSE,
                     NoImpl, error)
    /\ dispatch_cache' = EmptyCache
    /\ UNCHANGED <<registry, nodes, cache_token, abc_token, keys, regs, lin>>

\* register raising TypeError (lines 281-292): nothing has been mutated
RegisterRejected(f, force, error) ==
    /\ last' = Event("register", f, force, GetArgsType(f), FreshKey, FALSE,
                     NoImpl, error)
    /\ UNCHANGED <<registry, nodes, dispatch_cache, cache_token, abc_token,
                   keys, regs, lin>>

\* a registration that takes the place of the default entry
StoredOverDefault(reg, cls, f) ==
    [k \in (DOMAIN reg \ {ObjectKey}) \cup {cls} |-> IF k = cls THEN f ELSE reg[k]]

\* registry.setdefault(cls, func): an existing entry is kept
StoredIfAbsent(reg, cls, f) ==
    [k \in DOMAIN reg \cup {cls} |-> IF k \in DOMAIN reg THEN reg[k] ELSE f]

\* registry[cls] = func
Stored(reg, cls, f) ==
    [k \in DOMAIN reg \cup {cls} |-> IF k = cls THEN f ELSE reg[k]]

\* the observed token after lines 296-297
TokenAfterRegister(cls) ==
    IF cache_token = NoToken /\ \E i \in DOMAIN cls : HasAbstractMethods(cls[i])
    THEN abc_token ELSE cache_token

\* register leaving the dispatch cache as it is
CacheKept(cache) == cache

\* the dispatch cache after line 298, dispatch_cache.clear()
CacheAfterRegister(cache) == EmptyCache

\* register storing the function (lines 294-299)
RegisterAccepted(f, force) ==
    /\ regs < MaxRegs
    /\ registry' = Stored(registry, GetArgsType(f), f)
    /\ nodes' = AddType(nodes, GetArgsType(f))
    /\ cache_token' = TokenAfterRegister(GetArgsType(f))
    /\ dispatch_cache' = CacheAfterRegister(dispatch_cache)
    /\ regs' = regs + 1
    /\ last' = Event("register", f, force, GetArgsType(f), FreshKey, FALSE,
                     f, NoError)
    /\ UNCHANGED <<abc_token, keys, lin>>

\* the duplicate check of line 281
IsDuplicate(f, force) == ~force /\ GetArgsType(f) \in DOMAIN registry

\* a validity check that looks at the first element only
IsInvalidFirst(f) == ~IsValidDispatchType(GetArgsType(f)[1])

\* the validity check of line 287
IsInvalid(f) ==
    \E i \in DOMAIN GetArgsType(f) : ~IsValidDispatchType(GetArgsType(f)[i])

\* generic_func.register(func, force)
Register(f, force) ==
    IF IsDuplicate(f, force)
    THEN RegisterRejected(f, force, DuplicateRegistration)
    ELSE IF IsInvalid(f)
    THEN RegisterRejected(f, force, InvalidSignatureElement)
    ELSE RegisterAccepted(f, force)

\* the error the wrapper's call ends with, if any
CallError(d) ==
    IF d.raised THEN InconsistentHierarchy
    ELSE IF d.impl = NoImpl THEN NotCallable ELSE NoError

\* the state after dispatch returned d to the wrapper: the generator is
\* dropped and its weak cache entry with it
WrapperReturn(cls, d) ==
    /\ dispatch_cache' = [x \in DOMAIN d.cache \ {FreshKey} |-> d.cache[x]]
    /\ cache_token' = CheckedToken
    /\ last' = Event("call", d.impl, FALSE, cls, FreshKey, d.hit, d.impl, CallError(d))
    /\ UNCHANGED <<registry, nodes, abc_token, keys, regs, lin>>

\* the wrapper called with positional arguments of the classes cls: it
\* dispatches on a fresh generator over them
Wrapper(cls) == WrapperReturn(cls, Dispatch(FreshKey, cls))

\* dispatch memoizing what it found in the registry itself
DispatchReturnStoring(k, d) ==
    /\ dispatch_cache' = d.cache
    /\ cache_token' = CheckedToken
    /\ registry' = Stored(registry, keys[k], d.impl)
    /\ last' = Event("dispatch", d.impl, FALSE, keys[k], k, d.hit, d.impl,
                     IF d.raised THEN InconsistentHierarchy ELSE NoError)
    /\ UNCHANGED <<nodes, abc_token, keys, regs, lin>>

\* the state after dispatch returned d for the key object k
DispatchReturn(k, d) ==
    /\ dispatch_cache' = d.cache
    /\ cache_token' = CheckedToken
    /\ last' = Event("dispatch", d.impl, FALSE, keys[k], k, d.hit, d.impl,
                     IF d.raised THEN InconsistentHierarchy ELSE NoError)
    /\ UNCHANGED <<registry, nodes, abc_token, keys, regs, lin>>

\* generic_func.dispatch called by the client on the key object k it holds
DispatchHeld(k) == DispatchReturn(k, Dispatch(k, keys[k]))

\* generic_func._clear_cache()
ClearCache ==
    /\ dispatch_cache' = EmptyCache
    /\ last' = Event("clear", DefaultFunc, FALSE, <<>>, FreshKey, FALSE, NoImpl, NoError)
    /\ UNCHANGED <<registry, nodes, cache_token, abc_token, keys, regs, lin>>

\* some ABC.register() call in the process advances abc.get_cache_token()
AbcInvalidate ==
    /\ abc_token < MaxTok
    /\ abc_token' = abc_token + 1
    /\ last' = Event("abc", DefaultFunc, FALSE, <<>>, FreshKey, FALSE, NoImpl, NoError)
    /\ UNCHANGED <<registry, nodes, dispatch_cache, cache_token, keys, regs, lin>>

\* the functions explored with calls of every class tuple
CoreFuncs == Funcs \ {"fDogCat2", "fBad"}

\* the functions and calls explored together with the caller-held keys
CacheFuncs == {"fDogAny", "fDogCat", "fDogCat2", "fSwimmer", "fBad"}
CachePool == HeldPool \cup {<<"Dog", "Bird">>}

DoRegister == \E f \in CoreFuncs, force \in BOOLEAN : Register(f, force)
DoWrapper == \E cls \in CallPool : Wrapper(cls)
DoRegisterC == \E f \in CacheFuncs, force \in BOOLEAN : Register(f, force)
DoWrapperC == \E cls \in CachePool : Wrapper(cls)
DoDispatch == \E k \in DOMAIN keys : DispatchHeld(k)

\* the largest number of classes in a pool handed to _compose_mro directly
MaxPool == 2

\* the classes linearized and the classes of the pools
LinClasses == Classes \ {IGNORE_TYPE}
LinCandidates == {"Animal", "Cat", "Swimmer", "Flyer", "MutA", "MutB", IGNORE_TYPE}

\* the pools, each in every order an iteration can produce
LinPools ==
    {t \in UNION {[1..n -> LinCandidates] : n \in 0..MaxPool} :
        \A i, j \in DOMAIN t : t[i] = t[j] => i = j}

\* _compose_mro(cls, types) called on a class and a pool
Linearize(cls, types) ==
    /\ lin' = [cls |-> cls, types |-> types, mro |-> ComposeMro(cls, types)]
    /\ UNCHANGED <<registry, nodes, dispatch_cache, cache_token, abc_token,
                   keys, regs, last>>

DoLinearize == \E cls \in LinClasses, types \in LinPools : Linearize(cls, types)

\* the linearizer on its own, over every class and pool
SpecLin == Init /\ [][DoLinearize]_vars

\* registration and calls through the wrapper, over all functions and calls
Next == DoRegister \/ DoWrapper

Spec == Init /\ [][Next]_vars

\* every operation of the generic function, with caller-held keys, cache
\* clearing and ABC token advances
NextCache == DoRegisterC \/ DoWrapperC \/ DoDispatch \/ ClearCache \/ AbcInvalidate

SpecCache == InitCache /\ [][NextCache]_vars

(***************************************************************************)
(* Properties.                                                             *)
(***************************************************************************)
\* what dispatch returns for a call with arguments of the classes cls
Resolve(cls) == Dispatch(FreshKey, cls).impl

\* the implementations the registry holds
Registered == {registry[k] : k \in DOMAIN registry}

Called == last.op = "call"

\* C1 (totality): every call through the wrapper, whatever the number of its
\* arguments, is answered with a registered implementation, never with None.
C1_Totality ==
    (Called /\ last.error # InconsistentHierarchy) => last.result \in Registered

\* C2 (exactness precedence): a call whose tuple of runtime classes is itself
\* a registered signature is answered with the implementation registered for
\* exactly that signature.
C2_ExactPrecedence ==
    (Called /\ last.cls \in DOMAIN registry) => last.result = registry[last.cls]

\* c is a strict subclass of d by declared ancestry
StrictSubclass(c, d) == c # d /\ d \in Range(NativeMro(c))

\* signature s2 equals s except at one position, where it has a strict
\* subclass of the class of s
MoreSpecific(s2, s) ==
    /\ Len(s2) = Len(s)
    /\ \E i \in DOMAIN s :
        /\ s[i] # IGNORE_TYPE /\ s2[i] # IGNORE_TYPE
        /\ StrictSubclass(s2[i], s[i])
        /\ \A j \in DOMAIN s : j # i => s2[j] = s[j]

\* the actual classes cls match signature s: each is the element of s or a
\* subclass of it
Matches(cls, s) ==
    /\ Len(cls) = Len(s)
    /\ \A i \in DOMAIN s : s[i] = IGNORE_TYPE \/ IsSubclass(cls[i], s[i])

\* the step registers a new signature under function last'.f
RegistersNew ==
    /\ last'.op = "register" /\ last'.error = NoError
    /\ last'.cls \notin DOMAIN registry

\* C3 (monotonic specificity): registering a signature that is strictly more
\* specific than a registered one makes every call matching the new
\* signature resolve to the new implementation, and leaves every other call
\* resolved as before.
C3_MonotonicSpecificity ==
    [][(RegistersNew /\ \E s \in DOMAIN registry \ {ObjectKey} :
                            MoreSpecific(last'.cls, s))
       => \A cls \in CallPool :
            IF Matches(cls, last'.cls)
            THEN Resolve(cls)' = last'.f
            ELSE Resolve(cls)' = Resolve(cls)]_vars

\* C4 (scenario): after A for (Dog, wildcard) and then B for (Dog, Cat) were
\* registered on top of the default D, (Dog, Cat) resolves to B, (Dog, Bird)
\* to A and (Bird, Cat) to D.
C4_WildcardAndConcreteCoexist ==
    (/\ regs = 2
     /\ DOMAIN registry = {ObjectKey, <<"Dog", IGNORE_TYPE>>, <<"Dog", "Cat">>}
     /\ last.op = "register" /\ last.error = NoError /\ last.f = "fDogCat"
     /\ registry[<<"Dog", IGNORE_TYPE>>] = "fDogAny")
    => /\ Resolve(<<"Dog", "Cat">>) = "fDogCat"
       /\ Resolve(<<"Dog", "Bird">>) = "fDogAny"
       /\ Resolve(<<"Bird", "Cat">>) = DefaultFunc

\* what dispatch returns for the key object k the client holds
ResolveHeld(k) == Dispatch(k, keys[k]).impl

\* _find_impl recomputed from the registry and the trie, no cache involved
Recomputed(cls) == FindImpl(cls, registry, nodes).impl

\* C5 (cache transparency): every cached implementation, and every
\* implementation a call or a dispatch returned, is the one a recomputation
\* from the registry and the trie gives for the same classes.
C5_CacheTransparency ==
    /\ \A k \in DOMAIN dispatch_cache : dispatch_cache[k] = Recomputed(keys[k])
    /\ (last.op \in {"call", "dispatch"} /\ last.error # InconsistentHierarchy)
         => last.result = Recomputed(last.cls)

\* a dispatch answered from the cache with a registered implementation
C5_Witness ==
    last.op = "dispatch" /\ last.hit /\ last.result \in Funcs

\* C6 (duplicate rejection): register without force on a registered
\* signature raises the duplicate error and leaves registry, trie and cache
\* as they were.
C6_DuplicateRejected ==
    [][(last'.op = "register" /\ ~last'.force /\ last'.cls \in DOMAIN registry)
       => /\ last'.error = DuplicateRegistration
          /\ UNCHANGED <<registry, nodes, dispatch_cache>>]_vars

\* a rejected duplicate registration while the cache holds an entry
C6_Witness ==
    /\ last.op = "register" /\ last.error = DuplicateRegistration
    /\ dispatch_cache # EmptyCache

\* C7 (forced override): register with force on a registered signature
\* succeeds, and every call and every held key that resolved to the old
\* implementation of that signature resolves to the new one right after, and
\* nothing resolves to the old implementation any more.
C7_ForcedOverride ==
    [][(last'.op = "register" /\ last'.force /\ last'.cls \in DOMAIN registry)
       => /\ last'.error = NoError
          /\ registry'[last'.cls] = last'.f
          /\ \A cls \in CachePool :
                Resolve(cls) = registry[last'.cls] => Resolve(cls)' = last'.f
          /\ \A k \in DOMAIN keys :
                ResolveHeld(k) = registry[last'.cls] => ResolveHeld(k)' = last'.f
          /\ registry[last'.cls] # last'.f
               => /\ \A cls \in CachePool : Resolve(cls)' # registry[last'.cls]
                  /\ \A k \in DOMAIN keys :
                        ResolveHeld(k)' # registry[last'.cls]]_vars

\* fDogCat2 was forced over the one registered signature (Dog, Cat)
C7_Witness ==
    /\ last.op = "register" /\ last.force /\ last.error = NoError
    /\ last.f = "fDogCat2" /\ regs = 2
    /\ DOMAIN registry = {ObjectKey, <<"Dog", "Cat">>}

\* both classes of the mutually structural pair are in the candidate pool
MutualPairRegistered == {"MutA", "MutB"} \subseteq RegisteredTypes(registry)

\* the last operation is a call with an argument of class MutA or MutB
CalledWithMutual == Called /\ Range(last.cls) \cap {"MutA", "MutB"} # {}

\* C8 as stated (inconsistent hierarchy): a resolve involving two classes that
\* are structural bases of each other raises InconsistentHierarchy.
C8_MutualBasesRaise ==
    (CalledWithMutual /\ MutualPairRegistered)
    => last.error = InconsistentHierarchy

\* the order _compose_mro gives a class of the pair: itself, the other, object
MutualOrder(c) == IF c = "MutA" THEN <<"MutA", "MutB", "object">>
                  ELSE <<"MutB", "MutA", "object">>

\* C8 as amended: such a resolve does not raise; each class of the pair is
\* linearized with the other directly after it.
C8_MutualBasesLinearized ==
    (CalledWithMutual /\ MutualPairRegistered)
    => /\ last.error # InconsistentHierarchy
       /\ \A i \in DOMAIN last.cls :
            last.cls[i] \in {"MutA", "MutB"}
            => ComposedMros(last.cls, registry)[i] = MutualOrder(last.cls[i])

\* a call with arguments of both classes answered by the function registered
\* for (MutA, MutB)
C8_Witness ==
    /\ CalledWithMutual /\ MutualPairRegistered
    /\ last.cls = <<"MutA", "MutB">> /\ last.result = "fMutAB"

\* C9 (structural base): with an implementation registered for (Swimmer,) and
\* none for (Duck,), a call with a Duck, which satisfies Swimmer without
\* inheriting from it, resolves to the implementation of (Swimmer,).
C9_StructuralBase ==
    (/\ Called /\ last.cls = <<"Duck">>
     /\ <<"Swimmer">> \in DOMAIN registry
     /\ <<"Duck">> \notin DOMAIN registry)
    => last.result = registry[<<"Swimmer">>]

\* C10 (invalid signature): register with a signature holding an element
\* that is not a class raises the invalid-element error and leaves registry,
\* trie, cache and observed token as they were.
C10_InvalidRejected ==
    [][(last'.op = "register"
        /\ \E i \in DOMAIN last'.cls : last'.cls[i] \notin Classes)
       => /\ last'.error = InvalidSignatureElement
          /\ UNCHANGED <<registry, nodes, dispatch_cache, cache_token>>]_vars

\* a rejected invalid registration while the cache holds an entry and the
\* token is tracked
C10_Witness ==
    /\ last.op = "register" /\ last.error = InvalidSignatureElement
    /\ dispatch_cache # EmptyCache /\ cache_token # NoToken

\* the signature sig consists of wildcards only
AllWildcard(sig) == \A i \in DOMAIN sig : sig[i] = IGNORE_TYPE

\* C11 (all-wildcard occupied): register without force of a signature made
\* of wildcards only raises the duplicate error, the default holding that
\* signature since construction.
C11_AllWildcardOccupied ==
    [][(last'.op = "register" /\ ~last'.force /\ AllWildcard(last'.cls))
       => last'.error = DuplicateRegistration]_vars

\* C12 (default never removed): the registry holds the entry of the default
\* implementation installed at construction in every reachable state.
C12_DefaultNeverRemoved ==
    ObjectKey \in DOMAIN registry /\ registry[ObjectKey] = DefaultFunc

\* a forced registration of a one-wildcard signature was accepted
C12_Witness ==
    /\ last.op = "register" /\ last.force /\ last.error = NoError
    /\ last.f = "fAny" /\ regs = 2

\* the child of p a walk in specificity order follows for the linearized
\* order value: the first child equal to the earliest class of value that
\* any child equals
NodeGetBySpecificity(ns, p, value) ==
    LET matched == {i \in DOMAIN value : NodeContains(ns, p, value[i])}
    IN  IF matched = {} THEN NoNode
        ELSE NodeGetValue(ns, p, value[CHOOSE i \in matched : \A j \in matched : i <= j])

RECURSIVE GetItemBySpecificityLoop(_, _, _, _)
GetItemBySpecificityLoop(ns, current, types, i) ==
    IF i > Len(types) THEN ns[current].seq
    ELSE LET nxt == NodeGetBySpecificity(ns, current, types[i])
         IN  IF nxt = NoNode THEN ObjectKey
             ELSE GetItemBySpecificityLoop(ns, nxt, types, i + 1)

\* C13 (trie lookup in specificity order): for every call, the trie lookup on
\* the linearized orders of its classes ends where a walk does that follows,
\* at each position, the child matching the earliest class of the order.
C13_LookupBySpecificity ==
    \A cls \in CallPool :
        ~MroRaised(ComposedMros(cls, registry))
        => GetItem(nodes, ComposedMros(cls, registry))
             = GetItemBySpecificityLoop(nodes, Root, ComposedMros(cls, registry), 1)

\* C14 (resolve honours the hierarchy token): a dispatch that directly
\* follows an advance of the ABC cache token is not answered from the cache,
\* whose entries were all stored before the advance.
C14_TokenHonoured ==
    [][(last.op = "abc" /\ last'.op = "dispatch") => ~last'.hit]_vars

\* wildcard-aware equality of two signature elements
WildcardEq(a, b) == a = IGNORE_TYPE \/ b = IGNORE_TYPE \/ a = b

\* the children of p in ns that equal the element e, in child order
EqualChildren(ns, p, e) ==
    SelectSeq([i \in 1..Len(ns) |-> i],
              LAMBDA c : ns[c].parent = p /\ WildcardEq(ns[c].value, e))

\* the nodes walked from the root of ns along sig, taking at each position
\* the first child equal to the element; NoNode from the first position
\* without one
RECURSIVE PathLoop(_, _, _, _)
PathLoop(ns, current, sig, i) ==
    IF i > Len(sig) THEN << >>
    ELSE IF current = NoNode \/ Len(EqualChildren(ns, current, sig[i])) = 0
    THEN <<NoNode>> \o PathLoop(ns, NoNode, sig, i + 1)
    ELSE <<EqualChildren(ns, current, sig[i])[1]>>
         \o PathLoop(ns, EqualChildren(ns, current, sig[i])[1], sig, i + 1)

PathOf(ns, sig) == PathLoop(ns, Root, sig, 1)

\* the trie ns holds a path for the signature sig: a node for every element,
\* the last one with sig as its payload
HasPath(ns, sig) ==
    /\ \A i \in DOMAIN PathOf(ns, sig) : PathOf(ns, sig)[i] # NoNode
    /\ ns[PathOf(ns, sig)[Len(sig)]].seq = sig

\* C15 (successful register): right after a register that succeeded, forced
\* or not, the registry maps the signature to the registered function, the
\* trie holds a path for the signature and the dispatch cache is empty.
C15_SuccessfulRegister ==
    [][(last'.op = "register" /\ last'.error = NoError)
       => /\ registry'[last'.cls] = last'.f
          /\ HasPath(nodes', last'.cls)
          /\ dispatch_cache' = EmptyCache]_vars

\* a second registration was accepted without force
C15_Witness ==
    /\ last.op = "register" /\ last.error = NoError /\ ~last.force
    /\ regs = 2 /\ last.cls \in DOMAIN registry /\ dispatch_cache = EmptyCache

\* new is old after a wildcard-aware insert of sig, path being the nodes of
\* sig in new: an old child equal to the element is reused wherever there is
\* one, a node is created only where there is none, the payload of the last
\* node is sig, and every other node is as it was
InsertedAlong(old, new, sig, path) ==
    /\ \A i \in DOMAIN path : path[i] # NoNode
    /\ \A i \in DOMAIN path :
         LET parent == IF i = 1 THEN Root ELSE path[i - 1]
         IN  IF parent <= Len(old) /\ Len(EqualChildren(old, parent, sig[i])) > 0
             THEN path[i] = EqualChildren(old, parent, sig[i])[1]
             ELSE /\ path[i] > Len(old)
                  /\ new[path[i]] = [value |-> sig[i], parent |-> parent,
                                     seq |-> IF i = Len(sig) THEN sig ELSE None]
    /\ Len(new) = Len(old) + Cardinality({i \in DOMAIN path : path[i] > Len(old)})
    /\ new[path[Len(path)]].seq = sig
    /\ \A j \in 1..Len(old) :
         new[j] = IF j = path[Len(path)] THEN [old[j] EXCEPT !.seq = sig] ELSE old[j]

\* C16 (wildcard-aware insert): every accepted registration inserts its
\* signature in the trie reusing, at each position, the first child equal to
\* the element under wildcard-aware equality, creating a node only where no
\* child is equal, and sets the payload of the last node to the signature.
C16_WildcardAwareInsert ==
    [][(last'.op = "register" /\ last'.error = NoError)
       => InsertedAlong(nodes, nodes', last'.cls, PathOf(nodes', last'.cls))]_vars

\* (Dog, Cat) was inserted after (Dog, wildcard) and created no node: the
\* trie is the root, Dog and the wildcard child
C16_Witness ==
    /\ last.op = "register" /\ last.error = NoError /\ last.f = "fDogCat"
    /\ <<"Dog", IGNORE_TYPE>> \in DOMAIN registry
    /\ regs = 2 /\ Len(nodes) = 3

\* C17 (resolve is read-only): a call through the wrapper or a dispatch,
\* answered from the cache or by the trie search, leaves the registry and
\* the trie as they were.
C17_ResolveReadOnly ==
    [][last'.op \in {"call", "dispatch"} => UNCHANGED <<registry, nodes>>]_vars

\* a dispatch answered from the cache of a generic function whose trie holds
\* registered signatures
C17_Witness ==
    /\ last.op = "dispatch" /\ last.hit
    /\ Len(nodes) > 1 /\ DOMAIN registry # {ObjectKey}

\* the position of the class c in the sequence mro
PositionIn(mro, c) == CHOOSE i \in DOMAIN mro : mro[i] = c

Payloads(ns) == {ns[i].seq : i \in DOMAIN ns} \ {None}

\* the signatures registered besides the default
RegisteredSignatures == DOMAIN registry \ {ObjectKey}

\* C19 (registry and trie in sync): every registered signature other than the
\* default is the payload of the node reached by walking its own elements,
\* and the payloads of the trie are exactly those signatures.
C19_RegistryTrieInSync ==
    /\ \A sig \in RegisteredSignatures : HasPath(nodes, sig)
    /\ Payloads(nodes) = RegisteredSignatures

\* the orders in which the signatures of the set S can be registered
Orders(S) ==
    {t \in [1..Cardinality(S) -> S] : \A i, j \in DOMAIN t : t[i] = t[j] => i = j}

\* the trie of an engine on which the signatures sigs[i..] are registered
\* in turn, starting from the trie ns
RECURSIVE TrieAfter(_, _, _)
TrieAfter(ns, sigs, i) ==
    IF i > Len(sigs) THEN ns ELSE TrieAfter(AddType(ns, sigs[i]), sigs, i + 1)

\* C20 (registration-order independence): an engine that reached the same
\* registry mapping by registering the signatures in any other order
\* resolves every call to the implementation this engine resolves it to.
C20_OrderIndependence ==
    \A order \in Orders(RegisteredSignatures) :
        \A cls \in CallPool :
            FindImpl(cls, registry, TrieAfter(<<Node("None", 0)>>, order, 1)).impl
              = Recomputed(cls)

====
